---------------------------- MODULE Spec2Model ----------------------------
(***************************************************************************)
(* The adaptive EWMA filter of filter-ewma2 (FTNoIR_Filter::filter) and    *)
(* the Timer of opentrack-compat, as a state machine.                      *)
(*                                                                         *)
(* Numbers.  The code computes in double; the model computes the same      *)
(* expressions in exact rational arithmetic (a pair <<n, d>> in lowest     *)
(* terms), so results are the real-number values the doubles approximate.  *)
(* Positions are counted in units of 1e-5, which makes the two literals of *)
(* the code integers: 1e-4 is 10 units and 1e-10 is 1 squared unit.  Time  *)
(* is counted in clock ticks, TicksPerSec of them in a second.  A value    *)
(* whose numerator or denominator leaves the 32-bit range is NaR, and an   *)
(* invocation that produces one ends in pc = "out_of_range".               *)
(***************************************************************************)
EXTENDS Integers, Sequences, FiniteSets, TLC

\* ------------------------------------------------------------ bounds
MaxInt == 2147483646 + 1
\* invocations of a sequential run
MaxCalls == 3
\* invocations of an interleaved run, and clock advances in it
MaxClockCalls == 3
MaxWriterCalls == 2
MaxStepTicks == 2
\* writes of the settings dialog in an interleaved run
MaxWrites == 2
\* invocations of a run of two instances
MaxPairCalls == 2
\* height of the single-axis input, in units of 1e-5
StepHeight == 11
\* clock resolution
TicksPerSec == 60

\* ------------------------------------------------ exact rational numbers
Abs(a) == IF a < 0 THEN -a ELSE a

RECURSIVE GCD(_, _)
GCD(a, b) == IF b = 0 THEN a ELSE GCD(b, a % b)

NaR == <<0, 0>>

IsNum(x) == x[2] > 0

\* a * b stays in range
Fits(a, b) == a = 0 \/ b = 0 \/ Abs(a) <= MaxInt \div Abs(b)

\* a + b stays in range
FitsSum(a, b) == Abs(a) <= MaxInt - Abs(b)

\* n/d in lowest terms, d > 0
Norm(n, d) ==
    IF d = 0 THEN NaR
    ELSE LET g == GCD(Abs(n), Abs(d))
             s == IF d < 0 THEN -1 ELSE 1
         IN  <<s * (n \div g), s * (d \div g)>>

Rat(n, d) == Norm(n, d)

Zero == <<0, 1>>

One == <<1, 1>>

RNeg(x) == IF IsNum(x) THEN <<-x[1], x[2]>> ELSE NaR

RAbs(x) == IF IsNum(x) THEN <<Abs(x[1]), x[2]>> ELSE NaR

RMul(x, y) ==
    IF ~(IsNum(x) /\ IsNum(y)) THEN NaR
    ELSE LET g1 == GCD(Abs(x[1]), y[2])
             g2 == GCD(Abs(y[1]), x[2])
             a == x[1] \div g1
             b == x[2] \div g2
             c == y[1] \div g2
             d == y[2] \div g1
         IN  IF Fits(a, c) /\ Fits(b, d) THEN <<a * c, b * d>> ELSE NaR

RAdd(x, y) ==
    IF ~(IsNum(x) /\ IsNum(y)) THEN NaR
    ELSE LET g == GCD(x[2], y[2])
             p == y[2] \div g
             q == x[2] \div g
         IN  IF Fits(x[1], p) /\ Fits(y[1], q) /\ Fits(q, y[2])
                THEN (IF FitsSum(x[1] * p, y[1] * q)
                         THEN Norm(x[1] * p + y[1] * q, q * y[2])
                         ELSE NaR)
                ELSE NaR

RSub(x, y) == RAdd(x, RNeg(y))

RInv(x) ==
    IF ~IsNum(x) \/ x[1] = 0 THEN NaR
    ELSE IF x[1] < 0 THEN <<-x[2], -x[1]>> ELSE <<x[2], x[1]>>

RDiv(x, y) == RMul(x, RInv(y))

\* the order of a/b and p/q (b, q > 0): -1, 0 or 1, by continued fractions,
\* so that no product is formed
RECURSIVE Cmp(_, _, _, _)
Cmp(a, b, p, q) ==
    LET f1 == a \div b
        f2 == p \div q
        r1 == a % b
        r2 == p % q
    IN  IF f1 # f2 THEN (IF f1 < f2 THEN -1 ELSE 1)
        ELSE IF r1 = 0 /\ r2 = 0 THEN 0
        ELSE IF r1 = 0 THEN -1
        ELSE IF r2 = 0 THEN 1
        ELSE Cmp(q, r2, b, r1)

RLt(x, y) == Cmp(x[1], x[2], y[1], y[2]) < 0

RLe(x, y) == Cmp(x[1], x[2], y[1], y[2]) <= 0

CmpOK(x, y) == IsNum(x) /\ IsNum(y)

RMin(x, y) == IF ~CmpOK(x, y) THEN NaR ELSE IF RLt(y, x) THEN y ELSE x

RMax(x, y) == IF ~CmpOK(x, y) THEN NaR ELSE IF RLt(x, y) THEN y ELSE x

\* std::pow(x, e) for a natural exponent e >= 1, by repeated multiplication
RECURSIVE Pow(_, _)
Pow(x, e) == IF e = 1 THEN x ELSE RMul(x, Pow(x, e - 1))

\* ------------------------------------------------------------- Timer
\* clock_gettime: the monotonic time t (in ticks) as a struct timespec
clock_gettime(t) == [tv_sec |-> t \div TicksPerSec, tv_nsec |-> t % TicksPerSec]

\* Timer::conv
conv(state, cur) ==
    (cur.tv_sec - state.tv_sec) * TicksPerSec + (cur.tv_nsec - state.tv_nsec)

\* Timer::start
start(t) == clock_gettime(t)

\* Timer::elapsed
elapsed(state, t) == conv(state, clock_gettime(t))

\* Timer::elapsed_seconds
elapsed_seconds(state, t) == Rat(elapsed(state, t), TicksPerSec)

\* ------------------------------------------------------ filter constants
Axes == 1..6

\* a double[6], its elements evaluated once
Vec(Op(_)) == <<Op(1), Op(2), Op(3), Op(4), Op(5), Op(6)>>

\* static const double c[] = { 5, 5, 3, 1, 1, 1 }
c == <<5, 5, 3, 1, 1, 1>>

\* the literal 1e-4 of the change test, in position units
Eps == Rat(10, 1)

\* the literal 1e-10 of the noise normalisation, in squared position units
NoiseFloor == Rat(1, 1)

\* the literal 9.0 of the noise normalisation
Nine == Rat(9, 1)

\* deltas are smoothed over the last 1/60 sec, noise over the last 60 sec
delta_RC == Rat(1, 60)

noise_RC == Rat(60, 1)

\* ------------------------------------------------------ filter arithmetic
\* AxisChanged with >= for >
AxisChangedInclusive(lo, in) ==
    LET d == RAbs(RSub(lo, in)) IN IsNum(d) /\ RLe(Eps, d)

\* fabs(last_output[i] - input[i]) > 1e-4
AxisChanged(lo, in) ==
    LET d == RAbs(RSub(lo, in)) IN IsNum(d) /\ RLt(Eps, d)

\* the change test can be evaluated within range
AxisChangedOK(lo, in) == IsNum(RSub(lo, in))

\* the loop that sets new_sample
NewSample(lo, in) == \E i \in Axes : AxisChanged(lo[i], in[i])

\* Alpha without dt in the denominator
AlphaNoSum(dt, RC) == RDiv(dt, RC)

\* dt/(dt + RC)
Alpha(dt, RC) == RDiv(dt, RAdd(dt, RC))

\* MaxSmoothing without the std::max
MaxSmoothingNoClamp(min_smoothing, kMax) == kMax

\* std::max(min_smoothing, kMaxSmoothing)
MaxSmoothing(min_smoothing, kMax) == RMax(min_smoothing, kMax)

\* last_delta[i] = delta_alpha*delta + (1.0-delta_alpha)*last_delta[i]
Blend(a, x, y) == RAdd(RMul(a, x), RMul(RSub(One, a), y))

\* NormNoise without the std::min
NormNoiseUnclamped(noise, ln) ==
    IF ~IsNum(ln) THEN NaR
    ELSE IF RLt(ln, NoiseFloor) THEN Zero
    ELSE RDiv(noise, RMul(Nine, ln))

\* norm_noise
NormNoise(noise, ln) ==
    IF ~IsNum(ln) THEN NaR
    ELSE IF RLt(ln, NoiseFloor) THEN Zero
    ELSE RMin(RDiv(noise, RMul(Nine, ln)), One)

\* smoothing = 1.0 - pow(norm_noise, smoothing_scale_curve)
Smoothing(norm_noise, curve) == RSub(One, Pow(norm_noise, curve))

\* RC = c[i] * (min_smoothing + smoothing*(max_smoothing - min_smoothing))
TimeConstant(i, smoothing, min_smoothing, max_smoothing) ==
    RMul(Rat(c[i], 1),
         RAdd(min_smoothing, RMul(smoothing, RSub(max_smoothing, min_smoothing))))

\* AxisStep with the smoothed delta taken for its square
AxisStepNoSquare(i, in, lo, ld, ln, delta_alpha, noise_alpha, curve, mn, mx, dt_f) ==
    LET delta == RSub(in, lo)
        ld2 == Blend(delta_alpha, delta, ld)
        noise == ld2
        ln2 == Blend(noise_alpha, noise, ln)
        norm_noise == NormNoise(noise, ln2)
        smoothing == Smoothing(norm_noise, curve)
        RC == TimeConstant(i, smoothing, mn, mx)
        alpha == Alpha(dt_f, RC)
    IN  [last_delta |-> ld2, last_noise |-> ln2, norm_noise |-> norm_noise,
         smoothing |-> smoothing, RC |-> RC, alpha |-> alpha,
         output |-> Blend(alpha, in, lo)]

\* one pass of the per-axis loop body
AxisStep(i, in, lo, ld, ln, delta_alpha, noise_alpha, curve, mn, mx, dt_f) ==
    LET delta == RSub(in, lo)
        ld2 == Blend(delta_alpha, delta, ld)
        noise == RMul(ld2, ld2)
        ln2 == Blend(noise_alpha, noise, ln)
        norm_noise == NormNoise(noise, ln2)
        smoothing == Smoothing(norm_noise, curve)
        RC == TimeConstant(i, smoothing, mn, mx)
        alpha == Alpha(dt_f, RC)
    IN  [last_delta |-> ld2, last_noise |-> ln2, norm_noise |-> norm_noise,
         smoothing |-> smoothing, RC |-> RC, alpha |-> alpha,
         output |-> Blend(alpha, in, lo)]

\* Loop reading last_output[0] on every axis
LoopWrongIndex(in, lo, ld, ln, delta_alpha, noise_alpha, curve, mn, mx, dt_f) ==
    Vec(LAMBDA i :
        AxisStep(i, in[i], lo[1], ld[i], ln[i], delta_alpha, noise_alpha,
                 curve, mn, mx, dt_f))

\* whole loop: the per-axis results of one invocation
Loop(in, lo, ld, ln, delta_alpha, noise_alpha, curve, mn, mx, dt_f) ==
    Vec(LAMBDA i :
        AxisStep(i, in[i], lo[i], ld[i], ln[i], delta_alpha, noise_alpha,
                 curve, mn, mx, dt_f))

\* every value the loop stores is in range
LoopOK(r) ==
    \A i \in Axes :
        IsNum(r[i].last_delta) /\ IsNum(r[i].last_noise) /\ IsNum(r[i].RC)
        /\ IsNum(r[i].output)

\* ------------------------------------------- filter(), statement by statement
\* A filter instance is a record: the members of FTNoIR_Filter, the locals
\* of the invocation in progress with its position pc, and what that
\* invocation observed: prev_* (the state the loop started from),
\* norm_noise, smoothing, RC, alpha (the loop's locals), tInit, tRead, tRestart (the clock at the
\* first-run start(), at the elapsed reads and at the restarts), reads (how
\* often each setting was read), sMin, sMax (the store at the reads of
\* kMinSmoothing and kMaxSmoothing).

\* Enter with a first-run block that sets last_output only
EnterStale(f, v, t) ==
    LET g == IF f.first_run
                THEN [f EXCEPT !.first_run = FALSE,
                               !.sample_timer = start(t),
                               !.filter_timer = start(t),
                               !.last_output = v]
                ELSE f
        ok == \A i \in Axes : AxisChangedOK(g.last_output[i], v[i])
    IN  [g EXCEPT !.input = v,
                  !.new_sample = ok /\ NewSample(g.last_output, v),
                  !.pc = IF ok THEN "elapsed" ELSE "out_of_range",
                  !.tInit = IF f.first_run THEN t ELSE -1,
                  !.reads = <<0, 0, 0>>,
                  !.prev_output = g.last_output,
                  !.prev_delta = g.last_delta,
                  !.prev_noise = g.last_noise]

\* lines 29-53: entry, first-run initialisation, the change test
Enter(f, v, t) ==
    LET g == IF f.first_run
                THEN [f EXCEPT !.first_run = FALSE,
                               !.sample_timer = start(t),
                               !.filter_timer = start(t),
                               !.last_output = v,
                               !.last_delta = Vec(LAMBDA i : Zero),
                               !.last_noise = Vec(LAMBDA i : Zero)]
                ELSE f
        ok == \A i \in Axes : AxisChangedOK(g.last_output[i], v[i])
    IN  [g EXCEPT !.input = v,
                  !.new_sample = ok /\ NewSample(g.last_output, v),
                  !.pc = IF ok THEN "elapsed" ELSE "out_of_range",
                  !.tInit = IF f.first_run THEN t ELSE -1,
                  !.reads = <<0, 0, 0>>,
                  !.prev_output = g.last_output,
                  !.prev_delta = g.last_delta,
                  !.prev_noise = g.last_noise]

\* ReadClocks reading the sample timer whether or not the input changed
ReadClocksAlways(f, t) ==
    IF f.pc # "elapsed" THEN f
    ELSE [f EXCEPT !.dt_s = elapsed_seconds(f.sample_timer, t),
                   !.dt_f = elapsed_seconds(f.filter_timer, t),
                   !.tRead = t,
                   !.pc = "restart"]

\* lines 57-58: the two elapsed_seconds() reads
ReadClocks(f, t) ==
    IF f.pc # "elapsed" THEN f
    ELSE [f EXCEPT !.dt_s = IF f.new_sample
                               THEN elapsed_seconds(f.sample_timer, t)
                               ELSE Zero,
                   !.dt_f = elapsed_seconds(f.filter_timer, t),
                   !.tRead = t,
                   !.pc = "restart"]

\* RestartTimers restarting the sample timer on every invocation
RestartTimersAlways(f, t) ==
    IF f.pc # "restart" THEN f
    ELSE [f EXCEPT !.sample_timer = start(t),
                   !.filter_timer = start(t),
                   !.delta_alpha = Alpha(f.dt_s, delta_RC),
                   !.noise_alpha = Alpha(f.dt_s, noise_RC),
                   !.tRestart = t,
                   !.pc = "curve"]

\* lines 60-66: the timers restart; delta_alpha and noise_alpha
RestartTimers(f, t) ==
    IF f.pc # "restart" THEN f
    ELSE [f EXCEPT !.sample_timer = IF f.new_sample THEN start(t) ELSE @,
                   !.filter_timer = start(t),
                   !.delta_alpha = Alpha(f.dt_s, delta_RC),
                   !.noise_alpha = Alpha(f.dt_s, noise_RC),
                   !.tRestart = t,
                   !.pc = "curve"]

\* line 69
LoadCurve(f, cfg) ==
    IF f.pc # "curve" THEN f
    ELSE [f EXCEPT !.smoothing_scale_curve = cfg.kSmoothingScaleCurve,
                   !.reads[1] = @ + 1,
                   !.pc = "min"]

\* line 71
LoadMin(f, cfg) ==
    IF f.pc # "min" THEN f
    ELSE [f EXCEPT !.min_smoothing = cfg.kMinSmoothing,
                   !.reads[2] = @ + 1,
                   !.sMin = cfg,
                   !.pc = "max"]

\* LoadMax reading kMinSmoothing from the store again
LoadMaxReread(f, cfg) ==
    IF f.pc # "max" THEN f
    ELSE [f EXCEPT !.max_smoothing = MaxSmoothing(cfg.kMinSmoothing, cfg.kMaxSmoothing),
                   !.reads[2] = @ + 1,
                   !.reads[3] = @ + 1,
                   !.sMax = cfg,
                   !.pc = "axes"]

\* line 72
LoadMax(f, cfg) ==
    IF f.pc # "max" THEN f
    ELSE [f EXCEPT !.max_smoothing = MaxSmoothing(f.min_smoothing, cfg.kMaxSmoothing),
                   !.reads[3] = @ + 1,
                   !.sMax = cfg,
                   !.pc = "axes"]

\* lines 75-98: the per-axis loop; filter() returns
RunLoop(f) ==
    IF f.pc # "axes" THEN f
    ELSE LET r == Loop(f.input, f.last_output, f.last_delta, f.last_noise,
                       f.delta_alpha, f.noise_alpha, f.smoothing_scale_curve,
                       f.min_smoothing, f.max_smoothing, f.dt_f)
         IN  IF LoopOK(r)
                THEN [f EXCEPT !.last_delta = Vec(LAMBDA i : r[i].last_delta),
                               !.last_noise = Vec(LAMBDA i : r[i].last_noise),
                               !.last_output = Vec(LAMBDA i : r[i].output),
                               !.output = Vec(LAMBDA i : r[i].output),
                               !.norm_noise = Vec(LAMBDA i : r[i].norm_noise),
                               !.smoothing = Vec(LAMBDA i : r[i].smoothing),
                               !.RC = Vec(LAMBDA i : r[i].RC),
                               !.alpha = Vec(LAMBDA i : r[i].alpha),
                               !.pc = "idle"]
                ELSE [f EXCEPT !.pc = "out_of_range"]

\* FTNoIR_Filter::filter, entry to return, with the clock at t and the
\* settings cfg throughout
FilterCall(f, v, t, cfg) ==
    RunLoop(LoadMax(LoadMin(LoadCurve(
        RestartTimers(ReadClocks(Enter(f, v, t), t), t), cfg), cfg), cfg))

\* --------------------------------------------------------------- inputs
\* positions fed to the filter, in units of 1e-5
Uniform(v) == Vec(LAMBDA i : Rat(v, 1))

Single(k, v) == Vec(LAMBDA i : IF i = k THEN Rat(v, 1) ELSE Zero)

\* axes that receive a single-axis input
StepAxes == {4}

InputVectors ==
    {Uniform(v) : v \in {0, 5, 10}} \cup {Single(k, StepHeight) : k \in StepAxes}

\* a repeated read: the caller feeds the previous output back
Hold(f) == f.last_output

Inputs(f) == InputVectors \cup (IF f.first_run THEN {} ELSE {Hold(f)})

\* slider positions of the settings
SliderValues == {Rat(1, 100), Rat(1, 1)}

CurveValues == {1, 2}

Settings ==
    [kSmoothingScaleCurve : CurveValues, kMinSmoothing : SliderValues,
     kMaxSmoothing : SliderValues]

\* the store at construction: the minimum below the maximum, or the
\* degenerate maximum below the minimum
InitialSettings == {x \in Settings : x.kMinSmoothing # x.kMaxSmoothing}

\* values a member holds before the first invocation writes it
Uninitialised == {Zero, Rat(-3, 1)}

\* FTNoIR_Filter::FTNoIR_Filter at time t, members not yet written holding g
Construct(t, g) ==
    [first_run |-> TRUE,
     last_output |-> Vec(LAMBDA i : g),
     last_delta |-> Vec(LAMBDA i : g),
     last_noise |-> Vec(LAMBDA i : g),
     sample_timer |-> start(t), filter_timer |-> start(t),
     pc |-> "idle", input |-> Uniform(0), output |-> Uniform(0),
     new_sample |-> FALSE, dt_s |-> Zero, dt_f |-> Zero,
     delta_alpha |-> Zero, noise_alpha |-> Zero,
     smoothing_scale_curve |-> 1, min_smoothing |-> One, max_smoothing |-> One,
     reads |-> <<0, 0, 0>>,
     sMin |-> [kSmoothingScaleCurve |-> 1, kMinSmoothing |-> One, kMaxSmoothing |-> One],
     sMax |-> [kSmoothingScaleCurve |-> 1, kMinSmoothing |-> One, kMaxSmoothing |-> One],
     prev_output |-> Vec(LAMBDA i : g),
     prev_delta |-> Vec(LAMBDA i : g),
     prev_noise |-> Vec(LAMBDA i : g),
     norm_noise |-> Vec(LAMBDA i : Zero),
     smoothing |-> Vec(LAMBDA i : Zero),
     RC |-> Vec(LAMBDA i : Zero),
     alpha |-> Vec(LAMBDA i : Zero),
     tInit |-> -1, tRead |-> -1, tRestart |-> -1]

\* clock advances: one tick, one second, a pause of thirty seconds
TickSteps == {1, TicksPerSec, 30 * TicksPerSec}

\* ---------------------------------------------------------------- state
VARIABLES
    now,        \* the monotonic clock, in ticks
    s,          \* the settings store
    f,          \* the filter instance
    nticks,     \* number of clock advances so far
    nwrites,    \* number of settings writes so far
    hist,       \* the instance as each completed invocation left it
    f2,         \* a second instance, run beside f
    hist2       \* f2 as each completed invocation left it

vars == <<now, s, f, nticks, nwrites, hist, f2, hist2>>

pair == <<f2, hist2>>

Init ==
    /\ now = 0
    /\ s \in InitialSettings
    /\ f \in {Construct(0, g) : g \in Uninitialised}
    /\ nticks = 0
    /\ nwrites = 0
    /\ hist = <<>>
    /\ f2 = Construct(0, Zero)
    /\ hist2 = <<>>

\* ------------------------------------------------------------- actions
\* the clock advances by k ticks, once between two invocations
Advance(k) ==
    /\ f.pc = "idle"
    /\ ~f.first_run
    /\ elapsed(f.filter_timer, now) = 0
    /\ now' = now + k
    /\ nticks' = nticks + 1
    /\ UNCHANGED <<s, f, nwrites, hist, pair>>

Tick(k) == Len(hist) < MaxCalls /\ Advance(k)

\* one invocation of filter(), entry to return
Filter(v) ==
    /\ f.pc = "idle"
    /\ Len(hist) < MaxCalls
    /\ f' = FilterCall(f, v, now, s)
    /\ hist' = IF f'.pc = "idle" THEN Append(hist, f') ELSE hist
    /\ UNCHANGED <<now, s, nticks, nwrites, pair>>

Next ==
    \/ \E k \in TickSteps : Tick(k)
    \/ \E v \in Inputs(f) : Filter(v)

Spec == Init /\ [][Next]_vars

\* ----------------------------------------------- interleaved invocations
\* filter() statement by statement, with the clock advancing and the
\* settings dialog writing between its statements.  A clock advance matters
\* only before a clock read and a write only before a settings read, so
\* these are the places where they are taken: a clock advance before an
\* invocation, before the elapsed reads or before the restarts, a write of a
\* setting right before that setting is read.

StepInputs == {Uniform(0), Single(4, StepHeight)}

StepTick(k) ==
    /\ nticks < MaxStepTicks
    /\ f.pc \in {"idle", "elapsed", "restart"}
    /\ now' = now + k
    /\ nticks' = nticks + 1
    /\ UNCHANGED <<s, f, nwrites, hist, pair>>

IdleTick(k) == Len(hist) < MaxWriterCalls /\ Advance(k)

\* the settings dialog stores a new value
SetCurve(v) ==
    /\ nwrites < MaxWrites
    /\ f.pc = "curve"
    /\ nwrites' = nwrites + 1
    /\ s.kSmoothingScaleCurve # v
    /\ s' = [s EXCEPT !.kSmoothingScaleCurve = v]
    /\ UNCHANGED <<now, f, nticks, hist, pair>>

SetMin(v) ==
    /\ nwrites < MaxWrites
    /\ f.pc = "min"
    /\ nwrites' = nwrites + 1
    /\ s.kMinSmoothing # v
    /\ s' = [s EXCEPT !.kMinSmoothing = v]
    /\ UNCHANGED <<now, f, nticks, hist, pair>>

SetMax(v) ==
    /\ nwrites < MaxWrites
    /\ f.pc = "max"
    /\ nwrites' = nwrites + 1
    /\ s.kMaxSmoothing # v
    /\ s' = [s EXCEPT !.kMaxSmoothing = v]
    /\ UNCHANGED <<now, f, nticks, hist, pair>>

StepEnter(v, n) ==
    /\ f.pc = "idle"
    /\ Len(hist) < n
    /\ f' = Enter(f, v, now)
    /\ UNCHANGED <<now, s, nticks, nwrites, hist, pair>>

StepReadClocks ==
    /\ f.pc = "elapsed"
    /\ f' = ReadClocks(f, now)
    /\ UNCHANGED <<now, s, nticks, nwrites, hist, pair>>

StepRestartTimers ==
    /\ f.pc = "restart"
    /\ f' = RestartTimers(f, now)
    /\ UNCHANGED <<now, s, nticks, nwrites, hist, pair>>

StepLoadCurve ==
    /\ f.pc = "curve"
    /\ f' = LoadCurve(f, s)
    /\ UNCHANGED <<now, s, nticks, nwrites, hist, pair>>

StepLoadMin ==
    /\ f.pc = "min"
    /\ f' = LoadMin(f, s)
    /\ UNCHANGED <<now, s, nticks, nwrites, hist, pair>>

StepLoadMax ==
    /\ f.pc = "max"
    /\ f' = LoadMax(f, s)
    /\ UNCHANGED <<now, s, nticks, nwrites, hist, pair>>

StepRunLoop ==
    /\ f.pc = "axes"
    /\ f' = RunLoop(f)
    /\ hist' = IF f'.pc = "idle" THEN Append(hist, f') ELSE hist
    /\ UNCHANGED <<now, s, nticks, nwrites, pair>>

\* the settings at construction when no dialog is open
DefaultSettings ==
    [kSmoothingScaleCurve |-> 1, kMinSmoothing |-> Rat(1, 100), kMaxSmoothing |-> One]

\* construction with the store at its defaults
DefaultInit == Init /\ s = DefaultSettings

\* filter() statement by statement against the running clock
ClockNext ==
    \/ \E k \in TickSteps : StepTick(k)
    \/ \E v \in StepInputs : StepEnter(v, MaxClockCalls)
    \/ StepReadClocks
    \/ StepRestartTimers
    \/ StepLoadCurve
    \/ StepLoadMin
    \/ StepLoadMax
    \/ StepRunLoop

ClockSpec == DefaultInit /\ [][ClockNext]_vars

\* filter() statement by statement against the settings dialog
WriterNext ==
    \/ \E k \in TickSteps : IdleTick(k)
    \/ \E v \in CurveValues : SetCurve(v)
    \/ \E v \in SliderValues : SetMin(v)
    \/ \E v \in SliderValues : SetMax(v)
    \/ \E v \in StepInputs : StepEnter(v, MaxWriterCalls)
    \/ StepReadClocks
    \/ StepRestartTimers
    \/ StepLoadCurve
    \/ StepLoadMin
    \/ StepLoadMax
    \/ StepRunLoop

WriterSpec == DefaultInit /\ [][WriterNext]_vars

\* ------------------------------------------------------ two runs side by side
\* Two instances are fed at the same instants, under the same settings, with
\* input vectors of their own that agree on at least one axis.

\* v with axis k set to x
With(v, k, x) == [v EXCEPT ![k] = Rat(x, 1)]

PairInputs ==
    {Uniform(0), Uniform(5), With(Uniform(5), 1, StepHeight),
     With(Uniform(5), 1, StepHeight + 1)}

PairTick(k) == Len(hist) < MaxPairCalls /\ Advance(k)

PairFilter(v, w) ==
    /\ f.pc = "idle"
    /\ f2.pc = "idle"
    /\ Len(hist) < MaxPairCalls
    /\ \E i \in Axes : v[i] = w[i]
    /\ f' = FilterCall(f, v, now, s)
    /\ f2' = FilterCall(f2, w, now, s)
    /\ IF f'.pc = "idle" /\ f2'.pc = "idle"
          THEN hist' = Append(hist, f') /\ hist2' = Append(hist2, f2')
          ELSE UNCHANGED <<hist, hist2>>
    /\ UNCHANGED <<now, s, nticks, nwrites>>

PairNext ==
    \/ \E k \in TickSteps : PairTick(k)
    \/ \E v \in PairInputs, w \in PairInputs : PairFilter(v, w)

PairSpec == DefaultInit /\ [][PairNext]_vars

\* ================================================================ claims
Calls == 1..Len(hist)

Weight(i) == Rat(c[i], 1)

\* x lies between a and b, ends included
Between(x, a, b) == (RLe(a, x) /\ RLe(x, b)) \/ (RLe(b, x) /\ RLe(x, a))

\* ----------------------------------------------------------------- C1
\* C1: the first invocation of a fresh instance returns its input on all six
\* axes and leaves last_delta and last_noise at 0 on every axis.
C1_InitIdentity ==
    Len(hist) >= 1 =>
        \A i \in Axes :
            /\ hist[1].output[i] = hist[1].input[i]
            /\ hist[1].last_output[i] = hist[1].input[i]
            /\ hist[1].last_delta[i] = Zero
            /\ hist[1].last_noise[i] = Zero

\* a first invocation with a non-zero input, time passing between the
\* first-run start() and the elapsed read (alpha > 0)
C1_Witness ==
    /\ Len(hist) >= 1
    /\ hist[1].input[4] = Rat(StepHeight, 1)
    /\ hist[1].tInit >= 0
    /\ RLt(Zero, hist[1].alpha[4])

\* ----------------------------------------------------------------- C2
\* C2 as stated: in every invocation the RC of axis i lies between
\* c[i]*min_smoothing and c[i]*(the configured kMaxSmoothing), also when the
\* configured maximum is below the minimum.
C2_ConfiguredBounds ==
    \A n \in Calls : \A i \in Axes :
        /\ RLe(RMul(Weight(i), hist[n].min_smoothing), hist[n].RC[i])
        /\ RLe(hist[n].RC[i], RMul(Weight(i), hist[n].sMax.kMaxSmoothing))

\* C2 amended: in every invocation the RC of axis i lies between
\* c[i]*min_smoothing and c[i]*max(min_smoothing, kMaxSmoothing).
C2_ClampedBounds ==
    \A n \in Calls : \A i \in Axes :
        /\ RLe(RMul(Weight(i), hist[n].min_smoothing), hist[n].RC[i])
        /\ RLe(hist[n].RC[i],
               RMul(Weight(i), RMax(hist[n].min_smoothing, hist[n].sMax.kMaxSmoothing)))

\* an invocation whose RC is strictly inside the interval on some axis
C2_Witness ==
    \E n \in Calls : \E i \in Axes :
        /\ RLt(RMul(Weight(i), hist[n].min_smoothing), hist[n].RC[i])
        /\ RLt(hist[n].RC[i],
               RMul(Weight(i), RMax(hist[n].min_smoothing, hist[n].sMax.kMaxSmoothing)))

\* ----------------------------------------------------------------- C3
\* C3: an invocation after the first whose input equals last_output on all
\* six axes returns the previous output and leaves last_delta and last_noise
\* as they were, whatever time has elapsed.
C3_ConstantInput ==
    \A n \in Calls :
        (n > 1 /\ hist[n].input = hist[n].prev_output) =>
            /\ hist[n].output = hist[n - 1].output
            /\ hist[n].last_output = hist[n - 1].last_output
            /\ hist[n].last_delta = hist[n - 1].last_delta
            /\ hist[n].last_noise = hist[n - 1].last_noise

\* such an invocation with time elapsed on both clocks and non-zero
\* statistics to keep
C3_Witness ==
    \E n \in Calls :
        /\ n > 1
        /\ hist[n].input = hist[n].prev_output
        /\ hist[n].prev_delta[4] # Zero
        /\ hist[n].prev_noise[4] # Zero
        /\ RLt(Zero, hist[n].dt_f)
        /\ elapsed(hist[n - 1].sample_timer, hist[n].tRead) > 0

\* ----------------------------------------------------------------- C5
\* C5: when the kMaxSmoothing read is below the min_smoothing read, the
\* invocation completes with max_smoothing = min_smoothing and
\* RC = c[i]*min_smoothing on every axis whatever the noise, and no step of
\* filter() changes the settings store.
C5_DegenerateClamped ==
    /\ [](\A n \in Calls :
            RLt(hist[n].sMax.kMaxSmoothing, hist[n].min_smoothing) =>
                /\ hist[n].max_smoothing = hist[n].min_smoothing
                /\ \A i \in Axes :
                    hist[n].RC[i] = RMul(Weight(i), hist[n].min_smoothing))
    /\ [][f' # f => s' = s]_vars

\* a degenerate invocation whose smoothing fraction is neither 0 nor 1
C5_Witness ==
    \E n \in Calls :
        /\ RLt(hist[n].sMax.kMaxSmoothing, hist[n].min_smoothing)
        /\ RLt(Zero, hist[n].smoothing[4])
        /\ RLt(hist[n].smoothing[4], One)

\* ----------------------------------------------------------------- C6
\* the inputs so far alternate between [0,..] and [5,..] (0.00005)
Alternating ==
    /\ \A n \in Calls : hist[n].input \in {Uniform(0), Uniform(5)}
    /\ \A n \in Calls : n > 1 => hist[n].input # hist[n - 1].input

\* C6: an invocation detects a change iff some axis differs from last_output
\* by more than 1e-4 (10 units); and while the inputs alternate between 0 and
\* 0.00005 no invocation detects a change, last_delta and last_noise stay 0
\* and every output stays within [0, 0.00005].
C6_SubEpsilon ==
    /\ \A n \in Calls :
        hist[n].new_sample <=>
            \E i \in Axes :
                LET d == RSub(hist[n].input[i], hist[n].prev_output[i])
                IN  Abs(d[1]) > 10 * d[2]
    /\ Alternating =>
        \A n \in Calls :
            /\ ~hist[n].new_sample
            /\ \A i \in Axes :
                /\ hist[n].last_delta[i] = Zero
                /\ hist[n].last_noise[i] = Zero
                /\ RLe(Zero, hist[n].output[i])
                /\ RLe(hist[n].output[i], Rat(5, 1))

\* three alternating invocations, the output having moved off 0
C6_Witness ==
    /\ Len(hist) >= 3
    /\ Alternating
    /\ RLt(Zero, hist[2].output[4])
    /\ RLt(hist[3].output[4], hist[2].output[4])

\* ----------------------------------------------------------------- C7
\* the inputs so far are 0 on all axes, then StepHeight on axis a alone
StepRun(a) ==
    /\ Len(hist) >= 1
    /\ hist[1].input = Uniform(0)
    /\ \A n \in Calls : n > 1 => hist[n].input = Single(a, StepHeight)

\* C7: every output lies between the previous last_output and the input of
\* its axis; and after a step of one axis from 0 that is then held, the
\* output of that axis never decreases and never exceeds the step.
C7_MonotoneStep ==
    /\ \A n \in Calls : \A i \in Axes :
        Between(hist[n].output[i], hist[n].prev_output[i], hist[n].input[i])
    /\ \A a \in StepAxes :
        StepRun(a) =>
            \A n \in Calls :
                n > 1 =>
                    /\ RLe(hist[n - 1].output[a], hist[n].output[a])
                    /\ RLe(hist[n].output[a], Rat(StepHeight, 1))

\* a held step whose output has risen twice and not yet arrived
C7_Witness ==
    \E a \in StepAxes :
        /\ StepRun(a)
        /\ Len(hist) >= 3
        /\ RLt(Zero, hist[2].output[a])
        /\ RLt(hist[2].output[a], hist[3].output[a])
        /\ RLt(hist[3].output[a], Rat(StepHeight, 1))

\* ----------------------------------------------------------------- C9
\* C9: once the first invocation has begun, last_noise[i] >= 0 on every axis.
C9_NoiseNonNegative ==
    ~f.first_run => \A i \in Axes : IsNum(f.last_noise[i]) /\ f.last_noise[i][1] >= 0

\* a state with a positive noise estimate
C9_Witness == ~f.first_run /\ \E i \in Axes : f.last_noise[i][1] > 0

\* ----------------------------------------------------------------- C8
\* the clock at the last restart of the sample timer before invocation n
LastChange(n) ==
    LET ms == {m \in 1..(n - 1) : hist[m].new_sample}
    IN  IF ms = {} THEN hist[1].tInit
        ELSE hist[CHOOSE m \in ms : \A k \in ms : k <= m].tRestart

\* C8: dt_f is the time from the previous invocation's restart (the first-run
\* start() for the first) to the elapsed read, and the filter timer is
\* restarted by every invocation; dt_s is 0 and the sample timer keeps
\* running when no change is detected, and otherwise dt_s is the time from
\* the last restart of the sample timer (the last invocation that detected a
\* change, or the first-run start()) and the sample timer is restarted.
C8_DecoupledClocks ==
    \A n \in Calls :
        LET h == hist[n]
        IN  /\ h.dt_f = Rat(h.tRead - (IF n = 1 THEN h.tInit ELSE hist[n - 1].tRestart),
                             TicksPerSec)
            /\ elapsed(h.filter_timer, h.tRestart) = 0
            /\ h.new_sample =>
                /\ h.dt_s = Rat(h.tRead - LastChange(n), TicksPerSec)
                /\ elapsed(h.sample_timer, h.tRestart) = 0
            /\ ~h.new_sample =>
                /\ h.dt_s = Zero
                /\ elapsed(h.sample_timer, h.tRestart) = h.tRestart - LastChange(n)

\* an unchanged invocation followed by a changed one: dt_s spans both
\* intervals, dt_f the last one
C8_Witness ==
    \E n \in Calls :
        /\ n >= 3
        /\ hist[n].new_sample
        /\ ~hist[n - 1].new_sample
        /\ RLt(Zero, hist[n - 1].dt_f)
        /\ RLt(Zero, hist[n].dt_f)
        /\ hist[n].dt_s = RAdd(hist[n - 1].dt_f, hist[n].dt_f)

\* ---------------------------------------------------------------- C10
\* C10: with the settings written between the statements of filter(), every
\* invocation reads each of the three settings once, the six axes are
\* computed from those three values, and the max_smoothing used is at least
\* the min_smoothing used.  Stated of the invocation completed last, in
\* every state.
C10_Snapshot ==
    hist # <<>> =>
        LET h == hist[Len(hist)]
        IN  /\ h.reads = <<1, 1, 1>>
            /\ h.min_smoothing = h.sMin.kMinSmoothing
            /\ h.max_smoothing = RMax(h.min_smoothing, h.sMax.kMaxSmoothing)
            /\ RLe(h.min_smoothing, h.max_smoothing)
            /\ \A i \in Axes :
                /\ h.smoothing[i] = RSub(One, Pow(h.norm_noise[i], h.smoothing_scale_curve))
                /\ h.RC[i] =
                    RMul(Weight(i),
                         RAdd(h.min_smoothing,
                              RMul(h.smoothing[i], RSub(h.max_smoothing, h.min_smoothing))))

\* an invocation that read kMinSmoothing from a consistent version of the
\* settings and kMaxSmoothing from a later one, the maximum read being below
\* the minimum read
C10_Witness ==
    \E n \in Calls :
        LET h == hist[n]
        IN  /\ h.sMin # h.sMax
            /\ RLe(h.sMin.kMinSmoothing, h.sMin.kMaxSmoothing)
            /\ RLt(h.sMax.kMaxSmoothing, h.min_smoothing)

\* ----------------------------------------------------------------- C4
\* the two runs were fed the same values on axis i
AgreeOn(i) == \A n \in Calls : hist[n].input[i] = hist2[n].input[i]

\* the two runs produced the same output and statistics on axis i
SameAxis(i) ==
    \A n \in Calls :
        /\ hist[n].output[i] = hist2[n].output[i]
        /\ hist[n].last_delta[i] = hist2[n].last_delta[i]
        /\ hist[n].last_noise[i] = hist2[n].last_noise[i]

\* the two runs detected a change in the same invocations
SameChanges == \A n \in Calls : hist[n].new_sample = hist2[n].new_sample

\* C4 as stated: two runs with the same timing and settings whose inputs
\* agree on axis i have the same outputs, last_delta and last_noise on axis i.
C4_AxisIndependent ==
    Len(hist2) = Len(hist) => \A i \in Axes : AgreeOn(i) => SameAxis(i)

\* C4 amended: two runs with the same timing and settings whose inputs
\* agree on axis i, and which detect a change in the same invocations, have
\* the same outputs, last_delta and last_noise on axis i.
C4_IndependentGivenChanges ==
    Len(hist2) = Len(hist) =>
        \A i \in Axes : (AgreeOn(i) /\ SameChanges) => SameAxis(i)

\* two runs that differ on axis 1, agree on axis 4, detect the same changes,
\* and have moved on axis 4
C4_Witness ==
    /\ Len(hist) >= 2
    /\ Len(hist2) = Len(hist)
    /\ AgreeOn(4)
    /\ ~AgreeOn(1)
    /\ SameChanges
    /\ \E n \in Calls : hist[n].new_sample /\ hist[n].last_delta[4] # Zero

=============================================================================
